---- MODULE Spec2Model ----
(***************************************************************************)
(* VO-SE Pro rendering core: the execute_render drafts of the repository   *)
(* (the voice-database build of unnamed/part_005, the build of             *)
(* src/vose_core.cpp and the file-based build of unnamed/part_006),        *)
(* together with the sample store they read.                               *)
(*                                                                         *)
(* The output buffer is kept as its length plus the list of Synthesis      *)
(* calls that wrote into it; BufferAt gives the sample at an index.        *)
(* Sample counts are computed in IEEE-754 binary64 exactly as the C++      *)
(* expression does: the product is rounded to 53 bits after the division   *)
(* and after the multiplication, then truncated toward zero by the cast.   *)
(***************************************************************************)
EXTENDS Integers, Sequences, FiniteSets, TLC

(* ----------------------------- bounds ---------------------------------- *)
MaxNotes == 3
MaxFrames == 2
(* bins of an envelope row (fft_size / 2 + 1 in the program) *)
spec_bins == 3

(* ------------------------ program constants ---------------------------- *)
fs == 44100
frame_period == 5
MsPerSecond == 1000
length == 100
MantissaBits == 53
NULL == "nullptr"          \* a null char pointer
NullArray == <<>>          \* a null array pointer

(* ---------------------- binary64 arithmetic --------------------------- *)
(* A double magnitude is a record [m, x] standing for m * 2^x, where m is  *)
(* a natural number kept as a sequence of LimbBits-bit limbs, least        *)
(* significant limb first (a 53-bit mantissa does not fit a model integer).*)
RECURSIVE Pow2(_)
Pow2(k) == IF k = 0 THEN 1 ELSE 2 * Pow2(k - 1)


RECURSIVE SmallBitLen(_)
SmallBitLen(n) == IF n = 0 THEN 0 ELSE 1 + SmallBitLen(n \div 2)

(* a limb times the largest factor (fs) must fit a 32-bit model integer *)
LimbBits == 31 - SmallBitLen(fs)
Base == Pow2(LimbBits)

RECURSIVE Limbs(_)
Limbs(n) == IF n = 0 THEN <<>> ELSE <<n % Base>> \o Limbs(n \div Base)

RECURSIVE LimbsValue(_)
LimbsValue(b) == IF b = <<>> THEN 0 ELSE b[1] + Base * LimbsValue(Tail(b))

RECURSIVE Trim(_)
Trim(b) ==
    IF b = <<>> THEN <<>>
    ELSE IF b[Len(b)] = 0 THEN Trim(SubSeq(b, 1, Len(b) - 1)) ELSE b

BitLen(b0) ==
    LET b == Trim(b0)
    IN IF b = <<>> THEN 0
       ELSE LimbBits * (Len(b) - 1) + SmallBitLen(b[Len(b)])

IsOdd(b) == b # <<>> /\ b[1] % 2 = 1

RECURSIVE Incr(_)
Incr(b) ==
    IF b = <<>> THEN <<1>>
    ELSE IF b[1] + 1 < Base THEN <<b[1] + 1>> \o Tail(b)
    ELSE <<0>> \o Incr(Tail(b))

(* long division of a limb string by a small divisor, top limb first *)
DivStep(rest, digit) == [q |-> Append(rest.q, digit), r |-> rest.r]

RECURSIVE DivFrom(_, _, _, _)
DivFrom(b, k, r, d) ==
    IF k = 0 THEN [q |-> <<>>, r |-> r]
    ELSE DivStep(DivFrom(b, k - 1, (Base * r + b[k]) % d, d),
                 (Base * r + b[k]) \div d)

TrimQuotient(qr) == [q |-> Trim(qr.q), r |-> qr.r]

DivSmall(b, d) == TrimQuotient(DivFrom(b, Len(b), 0, d))

(* multiplication of a limb string by a small factor, bottom limb first *)
RECURSIVE MulFrom(_, _, _, _)
MulFrom(b, k, carry, c) ==
    IF k > Len(b) THEN Limbs(carry)
    ELSE <<(b[k] * c + carry) % Base>>
             \o MulFrom(b, k + 1, (b[k] * c + carry) \div Base, c)

MulSmall(b, c) == Trim(MulFrom(b, 1, 0, c))

ShiftLeft(b, s) ==
    IF Trim(b) = <<>> THEN <<>>
    ELSE [j \in 1..(s \div LimbBits) |-> 0] \o MulSmall(b, Pow2(s % LimbBits))

(* b divided by 2^s, s = LimbBits * w + t: the quotient, the first dropped *)
(* bit (guard) and whether any lower dropped bit is set (sticky)           *)
AnySet(low, n) == \E j \in 1..n : j <= Len(low) /\ low[j] # 0

ShiftRightParts(low, qr, w, t) ==
    [q |-> qr.q,
     guard |->
        IF t > 0 THEN (IF qr.r >= Pow2(t - 1) THEN 1 ELSE 0)
        ELSE IF w >= 1 /\ w <= Len(low) /\ low[w] >= Pow2(LimbBits - 1)
             THEN 1 ELSE 0,
     sticky |->
        IF t > 0 THEN qr.r % Pow2(t - 1) # 0 \/ AnySet(low, w)
        ELSE (w >= 1 /\ w <= Len(low) /\ low[w] % Pow2(LimbBits - 1) # 0)
                 \/ AnySet(low, w - 1)]

ShiftRightTrimmed(b, w, t) ==
    ShiftRightParts(SubSeq(b, 1, IF w < Len(b) THEN w ELSE Len(b)),
                    DivSmall(SubSeq(b, w + 1, Len(b)), Pow2(t)), w, t)

ShiftRight(b, s) == ShiftRightTrimmed(Trim(b), s \div LimbBits, s % LimbBits)

(* round-to-nearest-even to MantissaBits significant bits *)
RoundNearestEven(sr, sh) ==
    [m |-> IF sr.guard = 1 /\ (sr.sticky \/ IsOdd(sr.q))
           THEN Incr(sr.q) ELSE sr.q,
     sh |-> sh]

RoundMantissaBy(b, d) ==
    IF d <= 0 THEN [m |-> b, sh |-> 0]
    ELSE RoundNearestEven(ShiftRight(b, d), d)

RoundMantissa(b) == RoundMantissaBy(Trim(b), BitLen(b) - MantissaBits)

DoubleOfInt(n) == [m |-> Limbs(n), x |-> 0]

Scale(r, x) == [m |-> r.m, x |-> x + r.sh]

DoubleMul(a, c) == Scale(RoundMantissa(MulSmall(a.m, c)), a.x)

(* the quotient is taken with MantissaBits or MantissaBits + 1 bits and  *)
(* rounded to nearest even on the remainder                              *)
DivRoundWide(sr, r, x) ==
    [m |-> IF sr.guard = 1 /\ (r > 0 \/ IsOdd(sr.q))
           THEN Incr(sr.q) ELSE sr.q,
     x |-> x]

DivRound(qr, d, x) ==
    IF BitLen(qr.q) = MantissaBits
    THEN [m |-> IF 2 * qr.r > d \/ (2 * qr.r = d /\ IsOdd(qr.q))
                THEN Incr(qr.q) ELSE qr.q,
          x |-> x]
    ELSE DivRoundWide(ShiftRight(qr.q, 1), qr.r, x + 1)

DivPad(a, d) == MantissaBits + SmallBitLen(d) - BitLen(a.m)

DoubleDiv(a, d) ==
    IF Trim(a.m) = <<>> THEN [m |-> <<>>, x |-> 0]
    ELSE DivRound(DivSmall(ShiftLeft(a.m, DivPad(a, d)), d), d,
                  a.x - DivPad(a, d))

(* a cast that rounds to the nearest integer instead of discarding the    *)
(* fraction                                                                *)
RoundToInt(a) ==
    IF a.x >= 0 THEN LimbsValue(ShiftLeft(a.m, a.x))
    ELSE LimbsValue(ShiftRight(a.m, -a.x).q) + ShiftRight(a.m, -a.x).guard

(* static_cast of a non-negative double magnitude to an integer type:     *)
(* the fraction is discarded                                               *)
TruncToInt(a) ==
    IF a.x >= 0 THEN LimbsValue(ShiftLeft(a.m, a.x))
    ELSE LimbsValue(ShiftRight(a.m, -a.x).q)

Abs(n) == IF n < 0 THEN -n ELSE n

(* the double value |pitch_length - 1| * frame_period / 1000.0 * fs *)
SegmentMagnitude(pitch_length) ==
    DoubleMul(DoubleDiv(DoubleMul(DoubleOfInt(Abs(pitch_length - 1)),
                                  frame_period), MsPerSecond), fs)

Signed(t, pitch_length) == (IF pitch_length - 1 < 0 THEN -t ELSE t) + 1

(* static_cast<...>((pitch_length - 1) * frame_period / 1000.0 * fs) + 1  *)
CastSamples(pitch_length) ==
    Signed(TruncToInt(SegmentMagnitude(pitch_length)), pitch_length)

(* ------------------- signed binary64 values --------------------------- *)
(* A double is a record [sg, m, x] standing for sg * m * 2^x with m odd    *)
(* (zero: m empty, sg = 1, x = 0), so equal doubles are equal records.     *)
(* The curve and envelope values of the model stay far from overflow and   *)
(* from the subnormal range.                                               *)
Zero == [sg |-> 1, m |-> <<>>, x |-> 0]

RECURSIVE ZeroLimbs(_)
ZeroLimbs(b) == IF b = <<>> \/ b[1] # 0 THEN 0 ELSE 1 + ZeroLimbs(Tail(b))

RECURSIVE TrailingZeros(_)
TrailingZeros(n) == IF n % 2 = 1 THEN 0 ELSE 1 + TrailingZeros(n \div 2)

NormalFrom(sg, b, x, z) ==
    [sg |-> sg,
     m |-> DivSmall(SubSeq(b, z + 1, Len(b)),
                    Pow2(TrailingZeros(b[z + 1]))).q,
     x |-> x + LimbBits * z + TrailingZeros(b[z + 1])]

Normal(sg, b, x) ==
    IF Trim(b) = <<>> THEN Zero
    ELSE NormalFrom(sg, Trim(b), x, ZeroLimbs(Trim(b)))

Limb(a, k) == IF k <= Len(a) THEN a[k] ELSE 0

RECURSIVE AddFrom(_, _, _, _)
AddFrom(a, b, k, carry) ==
    IF k > Len(a) /\ k > Len(b)
    THEN (IF carry = 0 THEN <<>> ELSE <<carry>>)
    ELSE <<(Limb(a, k) + Limb(b, k) + carry) % Base>>
             \o AddFrom(a, b, k + 1,
                        (Limb(a, k) + Limb(b, k) + carry) \div Base)

AddLimbs(a, b) == AddFrom(a, b, 1, 0)

(* a - b for a >= b *)
RECURSIVE SubFrom(_, _, _, _)
SubFrom(a, b, k, borrow) ==
    IF k > Len(a) THEN <<>>
    ELSE <<(Limb(a, k) - Limb(b, k) - borrow + Base) % Base>>
             \o SubFrom(a, b, k + 1,
                        IF Limb(a, k) - Limb(b, k) - borrow < 0
                        THEN 1 ELSE 0)

SubLimbs(a, b) == Trim(SubFrom(a, b, 1, 0))

RECURSIVE LessFrom(_, _, _)
LessFrom(a, b, k) ==
    IF k = 0 THEN FALSE
    ELSE IF a[k] # b[k] THEN a[k] < b[k]
    ELSE LessFrom(a, b, k - 1)

LessTrimmed(a, b) ==
    IF Len(a) # Len(b) THEN Len(a) < Len(b) ELSE LessFrom(a, b, Len(a))

LimbsLess(a, b) == LessTrimmed(Trim(a), Trim(b))

RECURSIVE MulBy(_, _, _)
MulBy(a, b, k) ==
    IF k > Len(b) THEN <<>>
    ELSE AddLimbs(MulSmall(a, b[k]), <<0>> \o MulBy(a, b, k + 1))

MulLimbs(a, b) == Trim(MulBy(a, b, 1))

FRounded(sg, r, x) == Normal(sg, r.m, x + r.sh)

(* the exact value sg * b * 2^x rounded to a double *)
FRound(sg, b, x) == FRounded(sg, RoundMantissa(b), x)

FOfInt(n) == Normal(IF n < 0 THEN -1 ELSE 1, Limbs(Abs(n)), 0)

FNeg(a) == IF a.m = <<>> THEN a ELSE [a EXCEPT !.sg = -a.sg]

FMul(a, b) ==
    IF a.m = <<>> \/ b.m = <<>> THEN Zero
    ELSE FRound(a.sg * b.sg, MulLimbs(a.m, b.m), a.x + b.x)

FAddAligned(sa, ma, sb, mb, e) ==
    IF sa = sb THEN FRound(sa, AddLimbs(ma, mb), e)
    ELSE IF Trim(ma) = Trim(mb) THEN Zero
    ELSE IF LimbsLess(ma, mb) THEN FRound(sb, SubLimbs(mb, ma), e)
    ELSE FRound(sa, SubLimbs(ma, mb), e)

FAddAt(a, b, e) ==
    FAddAligned(a.sg, ShiftLeft(a.m, a.x - e), b.sg, ShiftLeft(b.m, b.x - e), e)

FAdd(a, b) ==
    IF a.m = <<>> THEN b
    ELSE IF b.m = <<>> THEN a
    ELSE FAddAt(a, b, IF a.x < b.x THEN a.x ELSE b.x)

FSub(a, b) == FAdd(a, FNeg(b))

FromMagnitude(sg, r) == Normal(sg, r.m, r.x)

(* a double divided by a positive integer that is converted to double *)
FDivInt(a, d) ==
    IF a.m = <<>> THEN Zero
    ELSE FromMagnitude(a.sg, DoubleDiv([m |-> a.m, x |-> a.x], d))

(* static_cast<int>(double): the fraction is discarded, toward zero *)
FTrunc(a) == a.sg * TruncToInt([m |-> a.m, x |-> a.x])

IsNegative(a) == a.m # <<>> /\ a.sg = -1

FLess(a, b) == IsNegative(FSub(a, b))

(* std::min(a, b): b if b < a, else a *)
FMin(a, b) == IF FLess(b, a) THEN b ELSE a

(* std::clamp(v, lo, hi) *)
FClamp(v, lo, hi) == IF FLess(v, lo) THEN lo ELSE IF FLess(hi, v) THEN hi ELSE v

(* the frame counts a note can carry, and the expression's value on each *)
LongFrameCounts == {71, length}
FrameCounts == (0..MaxFrames) \cup LongFrameCounts
SamplesTable == [n \in FrameCounts |-> CastSamples(n)]
SamplesOf(pitch_length) == SamplesTable[pitch_length]

(* the three places of execute_render (part_005) that use the expression *)
(* sizing that forgets the final sample of a segment *)
required_samples_short(pitch_length) == SamplesOf(pitch_length) - 1

required_samples(pitch_length) == SamplesOf(pitch_length)

(* a skip that leaves the offset where it is *)
skipped_samples_none(pitch_length) == 0

skipped_samples(pitch_length) == SamplesOf(pitch_length)

note_samples(f0_length) == SamplesOf(f0_length)

(* --------------------------- inputs ------------------------------------ *)
Keys == {"a", "b"}
Paths == Keys \cup {NULL}
OutputPath == "render_result.wav"
RawBlobs == {<<-32768>>, <<16384, 32767>>}

NoteEvent(p, n) == [wav_path |-> p, pitch_length |-> n]
ShortNotes == {NoteEvent(p, n) : p \in Paths, n \in 0..MaxFrames}
LongNotes == {NoteEvent(p, n) : p \in Paths, n \in LongFrameCounts}
NoteLists ==
    {<<x>> : x \in LongNotes}
        \cup UNION {[1..k -> ShortNotes] : k \in 1..MaxNotes}

(* ----------------------------- state ----------------------------------- *)
VARIABLES
    g_voice_db,              \* the sample store: key -> stored voice
    wav_files,               \* paths of the non-empty WAV files on disk
    notes,                   \* the note array of the running / last render
    i,                       \* loop index of the main synthesis loop
    total_samples_required,  \* size of full_song_buffer
    current_offset,          \* running write offset
    synth_calls,             \* Synthesis calls: [note, offset, y_length]
    analysis_calls,          \* keys handed to CheapTrick + D4C, in order
    wav_calls,               \* wavwrite calls: [sample_count, written]
    cache_cleared,           \* clear_engine_cache ran since the last render
    last_load,               \* the last load call since the last render
    shaped_note,             \* the resolved note whose frames are shaped
    frame,                   \* loop index j of the shaping loop
    frame_in,                \* analysis rows and curve values of the frame
    frame_out,               \* the frame's rows after shaping
    curve_reads,             \* curve elements read: [curve, index]
    shape_pc,                \* "idle", "shaping", "synthesized", "aborted"
    axis_of,                 \* [f0_length, size] the time axis is built for
    time_axis,               \* the elements of time_axis written so far
    request,                 \* the SynthesisRequest of the running call
    out_count,               \* element count of the allocated output buffer
    buffer_writes,           \* output buffer indices written: [from, to]
    pcm_reads,               \* source reads: [index, size] of the array
    req_i,                   \* loop index over the request's notes
    req_pc,                  \* "idle", "notes", "returned" or "aborted"
    pc                       \* "idle", "loop", "returned" or "aborted"

vars == <<g_voice_db, wav_files, notes, i, total_samples_required,
          current_offset, synth_calls, analysis_calls, wav_calls,
          cache_cleared, last_load, shaped_note, frame, frame_in,
          frame_out, curve_reads, shape_pc, axis_of, time_axis, request,
          out_count,
          buffer_writes, pcm_reads, req_i, req_pc, pc>>

axis_vars == <<axis_of, time_axis>>

shaping_vars == <<shaped_note, frame, frame_in, frame_out, curve_reads,
                  shape_pc, axis_vars>>

request_vars == <<request, out_count, buffer_writes, pcm_reads, req_i,
                  req_pc>>

render_vars == <<notes, i, total_samples_required, current_offset,
                 synth_calls, analysis_calls, wav_calls, pc>>

Curve(null, len) == [null |-> null, len |-> len]
NoNote == [pitch_length |-> 0, gender_curve |-> Curve(FALSE, 0),
           tension_curve |-> Curve(FALSE, 0),
           breath_curve |-> Curve(FALSE, 0)]
NoFrameIn == [spec_orig |-> <<>>, ap_orig |-> <<>>, g_val |-> Zero,
              t_val |-> Zero, b_val |-> Zero]
NoFrameOut == [shifted |-> <<>>, spec_data |-> <<>>, ap_data |-> <<>>,
               after_loop |-> <<>>, reads |-> {},
               core_shifted |-> <<>>, core_spec_data |-> <<>>,
               core_ap_data |-> <<>>, core_reads |-> {}]

NoAxis == [f0_length |-> 0, size |-> 0]

InitShaping ==
    /\ axis_of = NoAxis
    /\ time_axis = <<>>
    /\ shaped_note = NoNote
    /\ frame = 0
    /\ frame_in = NoFrameIn
    /\ frame_out = NoFrameOut
    /\ curve_reads = {}
    /\ shape_pc = "idle"

NoRequest == [notes |-> <<>>, note_count |-> 0, sample_rate |-> 0]

InitRequest ==
    /\ request = NoRequest
    /\ out_count = 0
    /\ buffer_writes = {}
    /\ pcm_reads = {}
    /\ req_i = 0
    /\ req_pc = "idle"

(* no load call was made yet *)
NoLoad == [op |-> "none", failed |-> FALSE, before |-> <<>>]

InitEngine ==
    /\ InitShaping
    /\ InitRequest
    /\ last_load = NoLoad
    /\ g_voice_db = <<>>
    /\ notes = <<>>
    /\ i = 0
    /\ total_samples_required = 0
    /\ current_offset = 0
    /\ synth_calls = <<>>
    /\ analysis_calls = <<>>
    /\ wav_calls = <<>>
    /\ cache_cleared = FALSE
    /\ pc = "idle"

(* the embedded build (part_005) reads no file *)
Init == InitEngine /\ wav_files = {}

(* the file-reading builds run next to a voice bank holding a.wav only *)
InitFiles == InitEngine /\ wav_files = {"a"}

NoCall == pc = "idle"

(* the sample of full_song_buffer at index k: the last Synthesis call     *)
(* covering k wrote it (marked by the note that sang it), else 0.0        *)
Covers(c, k) == c.offset <= k /\ k < c.offset + c.y_length
BufferAt(calls, k) ==
    IF \E j \in 1..Len(calls) : Covers(calls[j], k)
    THEN LET last == CHOOSE j \in 1..Len(calls) :
                 /\ Covers(calls[j], k)
                 /\ \A h \in (j + 1)..Len(calls) : ~Covers(calls[h], k)
         IN calls[last].note + 1
    ELSE 0

RECURSIVE SumSamples(_, _)
SumSamples(ns, k) ==
    IF k = 0 THEN 0
    ELSE SumSamples(ns, k - 1) + required_samples(ns[k].pitch_length)

(* Synthesis(f0, f0_length, ..., y_length, y) writes y[0 .. y_length-1];   *)
(* a call whose range leaves the buffer, or with no frame / no sample to   *)
(* produce, is undefined: the call may return or the process may die       *)
SynthesisOutcomes(f0_length, offset, y_length, size) ==
    IF f0_length >= 1 /\ y_length >= 1 /\ 0 <= offset
           /\ offset + y_length <= size
    THEN {"loop"} ELSE {"loop", "aborted"}

(* ------------------ load_embedded_resource (part_005) ------------------ *)
(* a conversion that maps the largest positive sample to 1.0 *)
PCM16ToDoubleFullScale(raw) == [num |-> raw, den |-> 32767]

(* static_cast<double>(raw_data[i]) / 32768.0: exact in binary64, kept as *)
(* the fraction num / den                                                 *)
PCM16ToDouble(raw) == [num |-> raw, den |-> 32768]

(* a loader that tests the pointers only: a count of 0 registers an empty *)
(* waveform                                                               *)
load_embedded_resource_any_count(phoneme, raw_data, sample_count) ==
    /\ IF phoneme = NULL \/ raw_data = NullArray
       THEN UNCHANGED g_voice_db
       ELSE g_voice_db' =
              [k \in DOMAIN g_voice_db \cup {phoneme} |->
                 IF k = phoneme
                 THEN [waveform |-> [j \in 1..sample_count |->
                                       PCM16ToDouble(raw_data[j])],
                       fs |-> fs]
                 ELSE g_voice_db[k]]
    /\ last_load' = [op |-> "load_embedded_resource",
                     failed |-> (phoneme = NULL \/ raw_data = NullArray
                                    \/ sample_count <= 0),
                     before |-> g_voice_db]
    /\ UNCHANGED <<wav_files, request_vars, shaping_vars, cache_cleared, render_vars>>

load_embedded_resource(phoneme, raw_data, sample_count) ==
    /\ IF phoneme = NULL \/ raw_data = NullArray \/ sample_count <= 0
       THEN UNCHANGED g_voice_db
       ELSE g_voice_db' =
              [k \in DOMAIN g_voice_db \cup {phoneme} |->
                 IF k = phoneme
                 THEN [waveform |-> [j \in 1..sample_count |->
                                       PCM16ToDouble(raw_data[j])],
                       fs |-> fs]
                 ELSE g_voice_db[k]]
    /\ last_load' = [op |-> "load_embedded_resource",
                     failed |-> (phoneme = NULL \/ raw_data = NullArray
                                    \/ sample_count <= 0),
                     before |-> g_voice_db]
    /\ UNCHANGED <<wav_files, request_vars, shaping_vars, cache_cleared, render_vars>>

(* ---------------------- execute_render (part_005) ---------------------- *)
(* operator[] without the find in front of it inserts an empty voice     *)
(* under a key that is missing                                            *)
voice_db_after_index(db, wav_path) ==
    IF wav_path = NULL \/ wav_path \in DOMAIN db THEN db
    ELSE [k \in DOMAIN db \cup {wav_path} |->
            IF k = wav_path THEN [waveform |-> <<>>, fs |-> 0] ELSE db[k]]

(* g_voice_db.find(n.wav_path), then g_voice_db[n.wav_path] only for a    *)
(* key that was found: the map is read, never written                     *)
voice_db_after_find(db, wav_path) == db

execute_render_enter(ns, note_count, output_path) ==
    /\ synth_calls' = <<>>
    /\ i' = 0
    /\ current_offset' = 0
    /\ IF ns = NullArray \/ note_count <= 0 \/ output_path = NULL
       THEN /\ notes' = <<>>
            /\ total_samples_required' = 0
            /\ pc' = "returned"
       ELSE /\ notes' = ns
            /\ total_samples_required' = SumSamples(ns, note_count)
            \* std::vector<double>(n, 0.0) with n < 0 throws length_error
            /\ pc' = IF SumSamples(ns, note_count) < 0
                     THEN "aborted" ELSE "loop"
    /\ last_load' = NoLoad
    /\ UNCHANGED <<g_voice_db, wav_files, request_vars, shaping_vars, cache_cleared>>

execute_render_note ==
    /\ pc = "loop"
    /\ i < Len(notes)
    /\ LET n == notes[i + 1]
           f0_length == n.pitch_length
           y_length == note_samples(f0_length)
       IN IF n.wav_path = NULL \/ n.wav_path \notin DOMAIN g_voice_db
          THEN /\ current_offset' =
                     current_offset + skipped_samples(n.pitch_length)
               /\ pc' = "loop"
               /\ UNCHANGED <<synth_calls, analysis_calls>>
          ELSE /\ analysis_calls' = Append(analysis_calls, n.wav_path)
               /\ IF current_offset + y_length <= total_samples_required
                  THEN /\ synth_calls' = Append(synth_calls,
                              [note |-> i, offset |-> current_offset,
                               y_length |-> y_length])
                       /\ current_offset' = current_offset + y_length
                       /\ pc' \in SynthesisOutcomes(f0_length,
                              current_offset, y_length,
                              total_samples_required)
                  ELSE /\ pc' = "loop"
                       /\ UNCHANGED <<synth_calls, current_offset>>
    /\ i' = i + 1
    /\ g_voice_db' = voice_db_after_find(g_voice_db, notes[i + 1].wav_path)
    /\ UNCHANGED <<wav_files, request_vars, last_load, shaping_vars, cache_cleared, notes, total_samples_required,
                   wav_calls>>

(* a writer that is called only when some segment was synthesized *)
wavwrite_if_rendered(calls, x_length, written) ==
    IF written = <<>> THEN calls
    ELSE Append(calls, [sample_count |-> x_length, written |-> written])

(* wavwrite(full_song_buffer.data(), size, fs, 16, output_path): the call *)
(* is unconditional; the buffer holds what the Synthesis calls wrote      *)
wavwrite(calls, x_length, written) ==
    Append(calls, [sample_count |-> x_length, written |-> written])

execute_render_write ==
    /\ pc = "loop"
    /\ i = Len(notes)
    /\ wav_calls' = wavwrite(wav_calls, total_samples_required, synth_calls)
    /\ pc' = "returned"
    /\ UNCHANGED <<g_voice_db, wav_files, request_vars, last_load, shaping_vars, cache_cleared,
                   notes, i, total_samples_required,
                   current_offset, synth_calls, analysis_calls>>

(* execute_render is declared void and takes notes, note_count and        *)
(* output_path only: no return value and no out-parameter; the notes the  *)
(* caller is told were skipped                                            *)
skipped_notes_reported == <<>>

(* a call of execute_render with fresh call logs *)
execute_render_begin(ns, note_count, output_path) ==
    /\ analysis_calls' = <<>>
    /\ wav_calls' = <<>>
    /\ execute_render_enter(ns, note_count, output_path)

(* the host's render handler finishes after the engine call returned; the *)
(* engine is ready for the next call                                      *)
execute_vose_render_done ==
    /\ pc = "returned"
    /\ pc' = "idle"
    /\ notes' = <<>>
    /\ i' = 0
    /\ total_samples_required' = 0
    /\ current_offset' = 0
    /\ synth_calls' = <<>>
    /\ analysis_calls' = <<>>
    /\ wav_calls' = <<>>
    /\ cache_cleared' = FALSE
    /\ UNCHANGED <<g_voice_db, wav_files, request_vars, last_load, shaping_vars>>

(* ----------------- preload_voice_sample (vose_core.cpp) ---------------- *)
(* GetAudioLength is positive exactly for the files on disk; wavread      *)
(* delivers the file's samples                                            *)
GetAudioLength(wav_path) == IF wav_path \in wav_files THEN 2 ELSE 0

wavread(wav_path) ==
    [j \in 1..GetAudioLength(wav_path) |-> [num |-> j, den |-> 4]]

preload_voice_sample(phoneme, wav_path) ==
    /\ IF GetAudioLength(wav_path) <= 0
       THEN UNCHANGED g_voice_db
       ELSE g_voice_db' =
              [k \in DOMAIN g_voice_db \cup {phoneme} |->
                 IF k = phoneme
                 THEN [x |-> wavread(wav_path), fs |-> fs, nbit |-> 16]
                 ELSE g_voice_db[k]]
    /\ last_load' = [op |-> "preload_voice_sample",
                     failed |-> (GetAudioLength(wav_path) <= 0),
                     before |-> g_voice_db]
    /\ UNCHANGED <<wav_files, request_vars, shaping_vars, cache_cleared, render_vars>>

(* -------------------- execute_render (vose_core.cpp) ------------------- *)
output_samples(f0_length) == SamplesOf(f0_length)

RECURSIVE SumOutputSamples(_, _)
SumOutputSamples(ns, k) ==
    IF k = 0 THEN 0
    ELSE SumOutputSamples(ns, k - 1) + output_samples(ns[k].pitch_length)

core_execute_render_begin(ns, note_count) ==
    /\ synth_calls' = <<>>
    /\ analysis_calls' = <<>>
    /\ wav_calls' = <<>>
    /\ i' = 0
    /\ current_offset' = 0
    /\ IF ns = NullArray \/ note_count = 0
       THEN /\ notes' = <<>>
            /\ total_samples_required' = 0
            /\ pc' = "returned"
       ELSE /\ notes' = ns
            /\ total_samples_required' = SumOutputSamples(ns, note_count)
            /\ pc' = IF SumOutputSamples(ns, note_count) < 0
                     THEN "aborted" ELSE "loop"
    /\ last_load' = NoLoad
    /\ UNCHANGED <<g_voice_db, wav_files, request_vars, shaping_vars, cache_cleared>>

core_execute_render_note ==
    /\ pc = "loop"
    /\ i < Len(notes)
    /\ IF notes[i + 1].wav_path \notin DOMAIN g_voice_db
       THEN \* continue: the offset is not advanced; std::string(nullptr)
            \* is undefined and may also end the process
            /\ pc' \in IF notes[i + 1].wav_path = NULL
                       THEN {"loop", "aborted"} ELSE {"loop"}
            /\ UNCHANGED <<synth_calls, analysis_calls, current_offset>>
       ELSE /\ analysis_calls' =
                  Append(analysis_calls, notes[i + 1].wav_path)
            /\ synth_calls' = Append(synth_calls,
                  [note |-> i, offset |-> current_offset,
                   y_length |-> output_samples(notes[i + 1].pitch_length)])
            /\ current_offset' = current_offset
                  + output_samples(notes[i + 1].pitch_length)
            /\ pc' \in SynthesisOutcomes(notes[i + 1].pitch_length,
                  current_offset,
                  output_samples(notes[i + 1].pitch_length),
                  total_samples_required)
    /\ i' = i + 1
    /\ UNCHANGED <<g_voice_db, wav_files, request_vars, last_load, shaping_vars, cache_cleared,
                   notes, total_samples_required,
                   wav_calls>>

core_execute_render_write ==
    /\ pc = "loop"
    /\ i = Len(notes)
    /\ wav_calls' = Append(wav_calls,
           [sample_count |-> total_samples_required,
            written |-> synth_calls])
    /\ pc' = "returned"
    /\ UNCHANGED <<g_voice_db, wav_files, request_vars, last_load, shaping_vars, cache_cleared,
                   notes, i, total_samples_required,
                   current_offset, synth_calls, analysis_calls>>

(* ---------------------- execute_render (part_006) ---------------------- *)
y_length(f0_length) == SamplesOf(f0_length)

file_execute_render_begin(ns, note_count, output_path) ==
    /\ synth_calls' = <<>>
    /\ analysis_calls' = <<>>
    /\ wav_calls' = <<>>
    /\ i' = 0
    /\ current_offset' = 0
    /\ total_samples_required' = 0
    /\ IF ns = NullArray \/ output_path = NULL
       THEN notes' = <<>> /\ pc' = "returned"
       ELSE notes' = SubSeq(ns, 1, note_count) /\ pc' = "loop"
    /\ last_load' = NoLoad
    /\ UNCHANGED <<g_voice_db, wav_files, request_vars, shaping_vars, cache_cleared>>

file_execute_render_note ==
    /\ pc = "loop"
    /\ i < Len(notes)
    /\ IF \/ notes[i + 1].pitch_length <= 0
          \/ notes[i + 1].wav_path = NULL
          \/ GetAudioLength(notes[i + 1].wav_path) <= 0
       THEN UNCHANGED <<synth_calls, analysis_calls, wav_calls>>
       ELSE /\ analysis_calls' =
                  Append(analysis_calls, notes[i + 1].wav_path)
            \* y is a fresh array of y_length samples for this note
            /\ synth_calls' = Append(synth_calls,
                  [note |-> i, offset |-> 0,
                   y_length |-> y_length(notes[i + 1].pitch_length)])
            /\ IF i = 0
               THEN wav_calls' = Append(wav_calls,
                      [sample_count |-> y_length(notes[i + 1].pitch_length),
                       written |-> <<[note |-> i, offset |-> 0,
                          y_length |->
                              y_length(notes[i + 1].pitch_length)]>>])
               ELSE UNCHANGED wav_calls
    /\ i' = i + 1
    /\ UNCHANGED <<g_voice_db, wav_files, request_vars, last_load, shaping_vars, cache_cleared,
                   notes, total_samples_required,
                   current_offset, pc>>

file_execute_render_return ==
    /\ pc = "loop"
    /\ i = Len(notes)
    /\ pc' = "returned"
    /\ UNCHANGED <<g_voice_db, wav_files, request_vars, last_load, shaping_vars, cache_cleared,
                   notes, i, total_samples_required,
                   current_offset, synth_calls, analysis_calls, wav_calls>>

(* --------------- expression shaping of one frame (part_005) ------------ *)
One == FOfInt(1)
Half == FDivInt(One, 2)
FormantRange == FDivInt(FOfInt(2), 5)          \* the literal 0.4

(* a shift that forgets to centre the gender value on 0.5 *)
formant_shift_uncentred(g_val) == FMul(g_val, FormantRange)

(* const double shift = (g_val - 0.5) * 0.4; *)
formant_shift(g_val) == FMul(FSub(g_val, Half), FormantRange)

(* double target_k = static_cast<double>(k) * (1.0 + shift); *)
target_k(k, shift) == FMul(FOfInt(k), FAdd(One, shift))

(* int k1 = std::min(k0 + 1, spec_bins - 1); *)
upper_bin(k0) == IF spec_bins - 1 < k0 + 1 THEN spec_bins - 1 ELSE k0 + 1

(* (1.0 - frac) * spec_orig[k0] + frac * spec_orig[k1]; the rows of the  *)
(* model are indexed from 1                                               *)
interpolate(spec_orig, k0, frac) ==
    FAdd(FMul(FSub(One, frac), spec_orig[k0 + 1]),
         FMul(frac, spec_orig[upper_bin(k0) + 1]))

resample_at(spec_orig, k, target, k0) ==
    IF k0 < spec_bins - 1
    THEN interpolate(spec_orig, k0, FSub(target, FOfInt(k0)))
    ELSE spec_orig[k + 1]

(* bin k of the row after the gender step *)
shifted_bin(spec_orig, k, shift) ==
    resample_at(spec_orig, k, target_k(k, shift),
                FTrunc(target_k(k, shift)))

shifted_row(spec_orig, g_val) ==
    [kk \in 1..spec_bins |->
        shifted_bin(spec_orig, kk - 1, formant_shift(g_val))]

(* a weight taken one bin too high *)
freq_weight_next_bin(k) == FDivInt(FOfInt(k + 1), spec_bins - 1)

(* double freq_weight = static_cast<double>(k) / (spec_bins - 1); *)
freq_weight(k) == FDivInt(FOfInt(k), spec_bins - 1)

(* a tension factor between 0 and 2 *)
tension_step_doubled(value, t_val, weight) ==
    FMul(value, FAdd(One, FMul(FMul(FSub(t_val, Half), FOfInt(2)), weight)))

(* spec_data[j][k] *= (1.0 + (t_val - 0.5) * freq_weight); *)
tension_step(value, t_val, weight) ==
    FMul(value, FAdd(One, FMul(FSub(t_val, Half), weight)))

(* a breath step that adds without the clamp *)
breath_step_unclamped(ap, b_val, weight) == FAdd(ap, FMul(b_val, weight))

(* ap_data[j][k] = std::clamp(ap_data[j][k] + (b_val * freq_weight),     *)
(*                            0.0, 1.0);                                  *)
breath_step(ap, b_val, weight) ==
    FClamp(FAdd(ap, FMul(b_val, weight)), Zero, One)

shaped_spec_row(spec_orig, g_val, t_val) ==
    [kk \in 1..spec_bins |->
        tension_step(shifted_row(spec_orig, g_val)[kk], t_val,
                     freq_weight(kk - 1))]

shaped_ap_row(ap_orig, b_val) ==
    [kk \in 1..spec_bins |->
        breath_step(ap_orig[kk], b_val, freq_weight(kk - 1))]

(* a reference to the row instead of a copy of it *)
spec_orig_aliased(spec_data, spec_copy) == spec_data

(* std::vector<double> spec_orig = spec_data[j]: the interpolation reads  *)
(* the copy made before the bin loop, not the row it writes               *)
spec_orig_of(spec_data, spec_copy) == spec_copy

(* one pass of the bin loop on the row as it stands: the bin is rewritten *)
(* when k0 < spec_bins - 1, then scaled by the tension factor             *)
rewritten_bin(spec_data, spec_copy, k, target, k0) ==
    IF k0 < spec_bins - 1
    THEN interpolate(spec_orig_of(spec_data, spec_copy), k0,
                     FSub(target, FOfInt(k0)))
    ELSE spec_data[k + 1]

shape_bin(spec_data, spec_copy, k, shift, t_val) ==
    [spec_data EXCEPT ![k + 1] =
        tension_step(rewritten_bin(spec_data, spec_copy, k,
                                   target_k(k, shift),
                                   FTrunc(target_k(k, shift))),
                     t_val, freq_weight(k))]

(* the row after the passes for the bins 0 .. k - 1 *)
RECURSIVE shape_bins(_, _, _, _, _)
shape_bins(spec_data, spec_copy, k, shift, t_val) ==
    IF k = 0 THEN spec_data
    ELSE shape_bin(shape_bins(spec_data, spec_copy, k - 1, shift, t_val),
                   spec_copy, k - 1, shift, t_val)

row_after_loop(spec_data, g_val, t_val) ==
    shape_bins(spec_data, spec_data, spec_bins, formant_shift(g_val), t_val)

(* a read of both neighbours whatever k0 is *)
envelope_reads_unguarded(k0) == {k0, k0 + 1}

(* the elements of spec_orig the pass for one bin reads: spec_orig[k0]    *)
(* and spec_orig[k1], inside the test k0 < spec_bins - 1                  *)
envelope_reads(k0) ==
    IF k0 < spec_bins - 1 THEN {k0, upper_bin(k0)} ELSE {}

row_reads(g_val) ==
    UNION {envelope_reads(FTrunc(target_k(k, formant_shift(g_val)))) :
           k \in 0..(spec_bins - 1)}

(* --------------- expression shaping of one frame (vose_core.cpp) ------- *)
(* the bin loop starts at k = 1; org_spec[k_idx] and org_spec[k_idx + 1]  *)
(* are read when k_idx < spec_bins - 1                                    *)
core_interpolate(org_spec, k_idx, frac) ==
    FAdd(FMul(FSub(One, frac), org_spec[k_idx + 1]),
         FMul(frac, org_spec[k_idx + 2]))

core_resample_at(org_spec, k, source_k, k_idx) ==
    IF k_idx < spec_bins - 1
    THEN core_interpolate(org_spec, k_idx, FSub(source_k, FOfInt(k_idx)))
    ELSE org_spec[k + 1]

core_shifted_bin(org_spec, k, shift) ==
    IF k = 0 THEN org_spec[1]
    ELSE core_resample_at(org_spec, k, target_k(k, shift),
                          FTrunc(target_k(k, shift)))

core_shifted_row(org_spec, g_val) ==
    [kk \in 1..spec_bins |->
        core_shifted_bin(org_spec, kk - 1, formant_shift(g_val))]

(* (double)k / spec_bins *)
core_freq_weight(k) == FDivInt(FOfInt(k), spec_bins)

(* std::min(1.0, ap_data[j][k] + (b_val * ((double)k / spec_bins))) *)
core_breath_step(ap, b_val, weight) ==
    FMin(One, FAdd(ap, FMul(b_val, weight)))

core_shaped_spec_row(org_spec, g_val, t_val) ==
    [kk \in 1..spec_bins |->
        IF kk = 1 THEN org_spec[1]
        ELSE tension_step(core_shifted_row(org_spec, g_val)[kk], t_val,
                          core_freq_weight(kk - 1))]

core_shaped_ap_row(ap_orig, b_val) ==
    [kk \in 1..spec_bins |->
        IF kk = 1 THEN ap_orig[1]
        ELSE core_breath_step(ap_orig[kk], b_val, core_freq_weight(kk - 1))]

core_envelope_reads(k_idx) ==
    IF k_idx < spec_bins - 1 THEN {k_idx, k_idx + 1} ELSE {}

core_row_reads(g_val) ==
    UNION {core_envelope_reads(FTrunc(target_k(k, formant_shift(g_val)))) :
           k \in 1..(spec_bins - 1)}

(* the values the host puts into the curves and the rows the analysis  *)
(* delivers                                                              *)
GenderValues ==
    {Zero, FDivInt(One, 4), Half, FDivInt(FOfInt(3), 10), One}
TensionValues == {Zero, Half, One}
BreathValues == {Zero, FDivInt(FOfInt(3), 10), One}
(* what a read outside a curve's array may find instead *)
StrayValues == {FOfInt(2)}

EnvelopeRows ==
    {[kk \in 1..spec_bins |-> One],
     [kk \in 1..spec_bins |-> FOfInt(kk)],
     [kk \in 1..spec_bins |-> FDivInt(FOfInt(1 + 2 * (kk % 2)), 10)]}
ApRows ==
    {[kk \in 1..spec_bins |-> Zero],
     [kk \in 1..spec_bins |-> One],
     [kk \in 1..spec_bins |-> FDivInt(FOfInt(9), 10)],
     [kk \in 1..spec_bins |-> FDivInt(FOfInt(kk), spec_bins + 1)]}
(* CheapTrick and D4C fill the two rows of a frame independently of each  *)
(* other; the frames of the model pair every envelope row and every       *)
(* aperiodicity row with one row of the other kind                        *)
PairedRows(row, ap) ==
    \/ row[spec_bins] = One /\ ap[1] \in {Zero, One}
    \/ row[spec_bins] = FOfInt(spec_bins) /\ ap[1] = FDivInt(FOfInt(9), 10)
    \/ row[1] = FDivInt(FOfInt(3), 10) /\ ap[1] = FDivInt(One, spec_bins + 1)
AnalysisFrames ==
    {[spec_orig |-> pair[1], ap_orig |-> pair[2]] :
        pair \in {pr \in EnvelopeRows \X ApRows : PairedRows(pr[1], pr[2])}}

ShiftedTable ==
    [row \in EnvelopeRows |->
        [g \in GenderValues \cup StrayValues |-> shifted_row(row, g)]]
ShapedSpecTable ==
    [row \in EnvelopeRows |->
        [g \in GenderValues \cup StrayValues |->
            [t \in TensionValues \cup StrayValues |->
                shaped_spec_row(row, g, t)]]]
ShapedApTable ==
    [ap \in ApRows |->
        [b \in BreathValues \cup StrayValues |-> shaped_ap_row(ap, b)]]

LoopTable ==
    [row \in EnvelopeRows |->
        [g \in GenderValues \cup StrayValues |->
            [t \in TensionValues \cup StrayValues |->
                row_after_loop(row, g, t)]]]
ReadsTable ==
    [g \in GenderValues \cup StrayValues |->
        [part |-> row_reads(g), core |-> core_row_reads(g)]]
CoreShiftedTable ==
    [row \in EnvelopeRows |->
        [g \in GenderValues \cup StrayValues |-> core_shifted_row(row, g)]]
CoreShapedSpecTable ==
    [row \in EnvelopeRows |->
        [g \in GenderValues \cup StrayValues |->
            [t \in TensionValues \cup StrayValues |->
                core_shaped_spec_row(row, g, t)]]]
CoreShapedApTable ==
    [ap \in ApRows |->
        [b \in BreathValues \cup StrayValues |-> core_shaped_ap_row(ap, b)]]

ShapedCurves == {"gender_curve", "tension_curve", "breath_curve"}
CurvesFor(n) ==
    {Curve(FALSE, n), Curve(TRUE, 0)}
        \cup (IF n >= 1 THEN {Curve(FALSE, n - 1)} ELSE {})
(* the host allocates every curve with pitch_length elements; the notes *)
(* of the model have at most one curve that is shorter or missing        *)
SoundNote(n) ==
    [pitch_length |-> n, gender_curve |-> Curve(FALSE, n),
     tension_curve |-> Curve(FALSE, n), breath_curve |-> Curve(FALSE, n)]
ShapedNotes ==
    UNION {{[SoundNote(n) EXCEPT ![c] = d] :
               c \in ShapedCurves, d \in CurvesFor(n)} :
           n \in 0..MaxFrames}

(* curve[index] of an array of curve.len elements *)
InsideCurve(curve, index) ==
    ~curve.null /\ 0 <= index /\ index < curve.len
ReadValues(curve, index, values) ==
    IF InsideCurve(curve, index) THEN values ELSE StrayValues

(* for (int j = 0; j < f0_length; ++j): the loop runs over the frames    *)
(* 0 .. f0_length - 1; an inclusive bound would run one frame further    *)
shaping_frames_inclusive(f0_length) == f0_length + 1

shaping_frames(f0_length) == f0_length

(* a resolved note after CheapTrick and D4C, lines 72-100 *)
shape_note_begin(n) ==
    /\ shaped_note' = n
    /\ frame' = 0
    /\ frame_in' = NoFrameIn
    /\ frame_out' = NoFrameOut
    /\ curve_reads' = {}
    /\ shape_pc' = "shaping"
    /\ UNCHANGED <<g_voice_db, wav_files, request_vars, last_load, cache_cleared, axis_vars,
                   render_vars>>

(* one pass of the loop at line 103: the three curve values of frame j   *)
(* are read, then every bin of the frame is reshaped; a read outside a   *)
(* curve's array is undefined: it delivers a stray value or the process  *)
(* dies. The shaping of vose_core.cpp (lines 101-120) is applied to the  *)
(* same frame next to that of part_005                                   *)
shape_frame ==
    /\ shape_pc = "shaping"
    /\ frame < shaping_frames(shaped_note.pitch_length)
    /\ curve_reads' = curve_reads
           \cup {[curve |-> c, index |-> frame] : c \in ShapedCurves}
    /\ \/ /\ \E c \in ShapedCurves : ~InsideCurve(shaped_note[c], frame)
          /\ shape_pc' = "aborted"
          /\ UNCHANGED <<frame, frame_in, frame_out>>
       \/ \E fr \in AnalysisFrames,
             g \in ReadValues(shaped_note.gender_curve, frame, GenderValues),
             t \in ReadValues(shaped_note.tension_curve, frame, TensionValues),
             b \in ReadValues(shaped_note.breath_curve, frame, BreathValues) :
            /\ frame_in' = [spec_orig |-> fr.spec_orig,
                            ap_orig |-> fr.ap_orig,
                            g_val |-> g, t_val |-> t, b_val |-> b]
            /\ frame_out' = [shifted |-> ShiftedTable[fr.spec_orig][g],
                             spec_data |-> ShapedSpecTable[fr.spec_orig][g][t],
                             ap_data |-> ShapedApTable[fr.ap_orig][b],
                             after_loop |-> LoopTable[fr.spec_orig][g][t],
                             reads |-> ReadsTable[g].part,
                             core_shifted |-> CoreShiftedTable[fr.spec_orig][g],
                             core_spec_data |->
                                 CoreShapedSpecTable[fr.spec_orig][g][t],
                             core_ap_data |-> CoreShapedApTable[fr.ap_orig][b],
                             core_reads |-> ReadsTable[g].core]
            /\ frame' = frame + 1
            /\ shape_pc' = "shaping"
    /\ UNCHANGED <<g_voice_db, wav_files, request_vars, last_load, cache_cleared, axis_vars,
                   render_vars,
                   shaped_note>>

(* Synthesis(n.pitch_curve, f0_length, ...) reads f0_length pitch values *)
shape_note_synthesis ==
    /\ shape_pc = "shaping"
    /\ frame >= shaping_frames(shaped_note.pitch_length)
    /\ curve_reads' = curve_reads
           \cup {[curve |-> "pitch_curve", index |-> jj] :
                 jj \in 0..(shaped_note.pitch_length - 1)}
    /\ shape_pc' = "synthesized"
    /\ UNCHANGED <<g_voice_db, wav_files, request_vars, last_load, cache_cleared, axis_vars,
                   render_vars,
                   shaped_note, frame, frame_in, frame_out>>

(* the loop at line 62 goes on to the next note *)
shape_note_done ==
    /\ shape_pc = "synthesized"
    /\ shaped_note' = NoNote
    /\ frame' = 0
    /\ frame_in' = NoFrameIn
    /\ frame_out' = NoFrameOut
    /\ curve_reads' = {}
    /\ shape_pc' = "idle"
    /\ UNCHANGED <<g_voice_db, wav_files, request_vars, last_load, cache_cleared, axis_vars,
                   render_vars>>

call_shape_note ==
    /\ shape_pc = "idle"
    /\ \E n \in ShapedNotes : shape_note_begin(n)

NextShape ==
    \/ call_shape_note
    \/ shape_frame
    \/ shape_note_synthesis
    \/ shape_note_done

SpecShape == Init /\ [][NextShape]_vars

(* ---------------- the stretched time axis (part_005) ------------------- *)
(* the result of 0.0 / 0.0 *)
NotANumber == [sg |-> 0, m |-> <<>>, x |-> 0]

(* double source_duration = static_cast<double>(ev.waveform.size()) / fs; *)
source_duration(size) == FDivInt(FOfInt(size), fs)

(* time_axis[j] = (static_cast<double>(j) / (f0_length - 1))              *)
(*                    * source_duration;                                  *)
(* with f0_length = 1 the quotient is 0.0 / 0                             *)
time_axis_at(jj, f0_length, duration) ==
    IF f0_length - 1 = 0 THEN NotANumber
    ELSE FMul(FDivInt(FOfInt(jj), f0_length - 1), duration)

(* the sizes of the stored waveforms: the embedded blobs and one second   *)
(* of audio                                                               *)
SourceSizes == {Len(raw) : raw \in RawBlobs} \cup {fs}

time_axis_begin(f0_length, size) ==
    /\ axis_of' = [f0_length |-> f0_length, size |-> size]
    /\ time_axis' = <<>>
    /\ UNCHANGED <<g_voice_db, wav_files, request_vars, last_load,
                   cache_cleared, render_vars, shaped_note, frame, frame_in,
                   frame_out, curve_reads, shape_pc>>

(* one pass of the loop at line 93 *)
time_axis_frame ==
    /\ axis_of # NoAxis
    /\ Len(time_axis) < axis_of.f0_length
    /\ time_axis' = Append(time_axis,
           time_axis_at(Len(time_axis), axis_of.f0_length,
                        source_duration(axis_of.size)))
    /\ UNCHANGED <<g_voice_db, wav_files, request_vars, last_load,
                   cache_cleared, render_vars, shaped_note, frame, frame_in,
                   frame_out, curve_reads, shape_pc, axis_of>>

(* the axis is handed to CheapTrick and D4C and dies with the iteration *)
time_axis_done ==
    /\ axis_of # NoAxis
    /\ Len(time_axis) >= axis_of.f0_length
    /\ axis_of' = NoAxis
    /\ time_axis' = <<>>
    /\ UNCHANGED <<g_voice_db, wav_files, request_vars, last_load,
                   cache_cleared, render_vars, shaped_note, frame, frame_in,
                   frame_out, curve_reads, shape_pc>>

call_time_axis ==
    /\ axis_of = NoAxis
    /\ \E f0_length \in FrameCounts \ {0}, size \in SourceSizes :
          time_axis_begin(f0_length, size)

NextAxis ==
    \/ call_time_axis
    \/ time_axis_frame
    \/ time_axis_done

SpecAxis == Init /\ [][NextAxis]_vars

(* ------------- the calls the host makes while no call runs ------------- *)
NoteArrays == NoteLists \cup {NullArray}
CountsOf(ns) == {0} \cup (IF ns = NullArray THEN {1} ELSE {Len(ns)})

call_load_embedded_resource ==
    /\ NoCall
    /\ \E phoneme \in Keys \cup {NULL}, raw_data \in RawBlobs \cup {NullArray} :
         \E sample_count \in CountsOf(raw_data) :
            load_embedded_resource(phoneme, raw_data, sample_count)

call_execute_render ==
    /\ NoCall
    /\ \E ns \in NoteArrays, output_path \in {OutputPath, NULL} :
         \E note_count \in CountsOf(ns) :
            execute_render_begin(ns, note_count, output_path)

call_preload_voice_sample ==
    /\ NoCall
    /\ \E phoneme \in Keys, wav_path \in Keys :
            preload_voice_sample(phoneme, wav_path)

call_core_execute_render ==
    /\ NoCall
    /\ \E ns \in NoteArrays :
         \E note_count \in CountsOf(ns) :
            core_execute_render_begin(ns, note_count)

call_file_execute_render ==
    /\ NoCall
    /\ \E ns \in NoteArrays, output_path \in {OutputPath, NULL} :
         \E note_count \in CountsOf(ns) :
            file_execute_render_begin(ns, note_count, output_path)

Next ==
    \/ call_load_embedded_resource
    \/ call_execute_render
    \/ execute_render_note
    \/ execute_render_write
    \/ execute_vose_render_done

Spec == Init /\ [][Next]_vars

NextCore ==
    \/ call_preload_voice_sample
    \/ call_core_execute_render
    \/ core_execute_render_note
    \/ core_execute_render_write
    \/ execute_vose_render_done

SpecCore == InitFiles /\ [][NextCore]_vars

NextFile ==
    \/ call_file_execute_render
    \/ file_execute_render_note
    \/ file_execute_render_return
    \/ execute_vose_render_done

SpecFile == InitFiles /\ [][NextFile]_vars

(* --------- the loaders of the embedded and the file-reading build ------ *)
(* both builds keep their store in a map named g_voice_db; the loaders    *)
(* are run against one store, each leaving the other's entries alone      *)
NextLoad ==
    \/ call_load_embedded_resource
    \/ call_preload_voice_sample

SpecLoad == InitFiles /\ [][NextLoad]_vars

(* -------- two renders of one note list in one process (part_005) ------- *)
(* clear(): empties the analysis cache. execute_render keeps no analysis   *)
(* between notes or calls, so the store and the render are left as they    *)
(* are                                                                     *)
clear_engine_cache ==
    /\ cache_cleared' = TRUE
    /\ UNCHANGED <<g_voice_db, wav_files, request_vars, last_load, shaping_vars, render_vars>>

FirstRenderReturned == pc = "returned" /\ notes # <<>> /\ Len(wav_calls) = 1

call_clear_engine_cache ==
    /\ FirstRenderReturned
    /\ ~cache_cleared
    /\ clear_engine_cache

(* the host's handler runs again on the same note list *)
call_execute_render_again ==
    /\ FirstRenderReturned
    /\ execute_render_enter(notes, Len(notes), OutputPath)
    /\ UNCHANGED <<analysis_calls, wav_calls>>

NextSession ==
    \/ call_load_embedded_resource
    \/ call_execute_render
    \/ execute_render_note
    \/ execute_render_write
    \/ call_clear_engine_cache
    \/ call_execute_render_again
    \/ execute_vose_render_done

SpecSession == Init /\ [][NextSession]_vars

(* ------------ request_synthesis_full (synthesizer_core.c) -------------- *)
(* start_time and duration are floats; the requests of the model carry    *)
(* whole numbers of half seconds, which the float products below hold     *)
(* exactly                                                                *)
TicksPerSecond == 2

(* (int)x of a float x = a / b: truncation toward zero *)
TruncDiv(a, b) == IF a >= 0 THEN a \div b ELSE -((-a) \div b)

(* (int)(t * req.sample_rate) for a time of t half seconds *)
ToSamples(t, sample_rate) == TruncDiv(t * sample_rate, TicksPerSecond)

CNoteEvent(start, dur, number, phs) ==
    [start_time |-> start, duration |-> dur, note_number |-> number,
     phonemes |-> phs, phoneme_count |-> Len(phs)]

NoteEnd(note) == note.start_time + note.duration

(* the end of the note that ends last *)
max_time_of(ns) ==
    IF ns = <<>> THEN 0
    ELSE LET last == CHOOSE a \in 1..Len(ns) :
                        \A b \in 1..Len(ns) : NoteEnd(ns[b]) <= NoteEnd(ns[a])
         IN IF NoteEnd(ns[last]) > 0 THEN NoteEnd(ns[last]) ELSE 0

(* last_time = notes[note_count-1].start_time + its duration: the end of  *)
(* the note that stands last in the array                                 *)
last_time_of(ns) == IF Len(ns) > 0 THEN NoteEnd(ns[Len(ns)]) ELSE 0

(* int total_samples = (int)((last_time + 1.0f) * req.sample_rate); *)
total_samples_of(req) ==
    ToSamples(last_time_of(req.notes) + TicksPerSecond, req.sample_rate)

(* calloc(total_samples, sizeof(float)): a negative count converts to a   *)
(* size no allocation satisfies; a count of 0 may give NULL or a pointer  *)
CallocOutcomes(count) ==
    IF count < 0 THEN {"returned"}
    ELSE IF count = 0 THEN {"returned", "notes"} ELSE {"notes"}

(* powf(2.0f, (note_number - 60.0f) / 12.0f) for whole octaves, and        *)
(* idx = (int)(s * pitch_ratio)                                           *)
Octave(note_number) == (note_number - 60) \div 12
RECURSIVE TwoTo(_)
TwoTo(e) == IF e = 0 THEN 1 ELSE 2 * TwoTo(e - 1)
SourceIndex(s, note_number) ==
    IF Octave(note_number) >= 0
    THEN s * TwoTo(Octave(note_number))
    ELSE s \div TwoTo(-Octave(note_number))

(* what drwav_open_file_and_read_pcm_frames_f32 delivers for the files of *)
(* the voice directory: [frames, channels]; a missing file gives NULL     *)
PCMShapes == {[frames |-> 1, channels |-> 1], [frames |-> 3, channels |-> 2]}

(* the passes of the sample loop that reach the write: s < duration,      *)
(* no break before s, and idx + 1 < totalPCMFrameCount                    *)
WritingSteps(note, sample_rate, total, pcm) ==
    {s \in 0..(ToSamples(note.duration, sample_rate) - 1) :
        /\ ToSamples(note.start_time, sample_rate) + s < total
        /\ SourceIndex(s, note.note_number) + 1 < pcm.frames}

resample_writes(note, sample_rate, total, pcm) ==
    {[from |-> ToSamples(note.start_time, sample_rate) + s,
      to |-> ToSamples(note.start_time, sample_rate) + s] :
        s \in WritingSteps(note, sample_rate, total, pcm)}

resample_reads(note, sample_rate, total, pcm) ==
    UNION {{[index |-> SourceIndex(s, note.note_number) * pcm.channels,
             size |-> pcm.frames * pcm.channels],
            [index |-> (SourceIndex(s, note.note_number) + 1) * pcm.channels,
             size |-> pcm.frames * pcm.channels]} :
           s \in WritingSteps(note, sample_rate, total, pcm)}

(* a write outside the allocated block is undefined: the call goes on or  *)
(* the process dies                                                       *)
WriteOutcomes(writes, total) ==
    IF \A w \in writes : 0 <= w.from /\ w.to < total
    THEN {"notes"} ELSE {"notes", "aborted"}

resample_request_begin(req) ==
    /\ request' = req
    /\ out_count' = total_samples_of(req)
    /\ buffer_writes' = {}
    /\ pcm_reads' = {}
    /\ req_i' = 0
    /\ req_pc' \in CallocOutcomes(total_samples_of(req))
    /\ UNCHANGED <<g_voice_db, wav_files, last_load, cache_cleared,
                   shaping_vars, render_vars>>

(* one pass of the note loop; the notes of the model name at most one     *)
(* phoneme                                                                *)
resample_request_note ==
    /\ req_pc = "notes"
    /\ req_i < request.note_count
    /\ LET note == request.notes[req_i + 1]
       IN IF note.phoneme_count = 0 \/ note.phonemes[1] \notin wav_files
          THEN /\ req_pc' = "notes"
               /\ UNCHANGED <<buffer_writes, pcm_reads>>
          ELSE \E pcm \in PCMShapes :
                 /\ buffer_writes' = buffer_writes \cup
                        resample_writes(note, request.sample_rate,
                                        out_count, pcm)
                 /\ pcm_reads' = pcm_reads \cup
                        resample_reads(note, request.sample_rate,
                                       out_count, pcm)
                 /\ req_pc' \in WriteOutcomes(
                        resample_writes(note, request.sample_rate,
                                        out_count, pcm), out_count)
    /\ req_i' = req_i + 1
    /\ UNCHANGED <<g_voice_db, wav_files, last_load, cache_cleared,
                   shaping_vars, render_vars, request, out_count>>

resample_request_return ==
    /\ req_pc = "notes"
    /\ req_i = request.note_count
    /\ req_pc' = "returned"
    /\ UNCHANGED <<g_voice_db, wav_files, last_load, cache_cleared,
                   shaping_vars, render_vars, request, out_count,
                   buffer_writes, pcm_reads, req_i>>

(* the caller frees the buffer (vse_free_buffer) and may call again *)
vse_free_buffer ==
    /\ req_pc = "returned"
    /\ request' = NoRequest
    /\ out_count' = 0
    /\ buffer_writes' = {}
    /\ pcm_reads' = {}
    /\ req_i' = 0
    /\ req_pc' = "idle"
    /\ UNCHANGED <<g_voice_db, wav_files, last_load, cache_cleared,
                   shaping_vars, render_vars>>

(* the requests of the host *)
StartTimes == {-1, 0, 1, 3}
Durations == {0, 1, 2}
NoteNumbers == {48, 60, 72}
PhonemeLists == {<<>>, <<"a">>, <<"b">>}
SampleRates == {2, 3}
RequestNotes ==
    {CNoteEvent(st, du, nn, ph) : st \in StartTimes, du \in Durations,
                                  nn \in NoteNumbers, ph \in PhonemeLists}
RequestNoteLists ==
    {<<>>} \cup {<<a>> : a \in RequestNotes}
        \cup {<<a, b>> : a \in RequestNotes, b \in RequestNotes}
Requests ==
    {[notes |-> ns, note_count |-> Len(ns), sample_rate |-> sr] :
        ns \in RequestNoteLists, sr \in SampleRates}

call_resample_request ==
    /\ req_pc = "idle"
    /\ \E req \in Requests : resample_request_begin(req)

NextResample ==
    \/ call_resample_request
    \/ resample_request_note
    \/ resample_request_return
    \/ vse_free_buffer

SpecResample == InitFiles /\ [][NextResample]_vars

(* --------------- vse_synthesize_track (api_interface.c) ---------------- *)
(* int sr = 44100; a time of t half seconds is (int)(t / 2 * sr) samples  *)
TrackSamples(t) == TruncDiv(t * fs, TicksPerSecond)

(* the library init_engine fills from the voice directory holds one entry *)
(* per WAV file                                                           *)
InLibrary(phoneme) == phoneme \in wav_files

(* if (n_start < 0 || n_start + n_len > *out_len                          *)
(*     || notes[i].phoneme_count == 0) continue;                          *)
track_note_skipped(note, start, out_len) ==
    \/ TrackSamples(note.start_time - start) < 0
    \/ TrackSamples(note.start_time - start) + TrackSamples(note.duration)
           > out_len
    \/ note.phoneme_count = 0

(* int ph_len = n_len / notes[i].phoneme_count; *)
ph_len_of(note) == TruncDiv(TrackSamples(note.duration), note.phoneme_count)

(* int current_p = n_start + (p * ph_len); *)
current_p_of(note, start, p) ==
    TrackSamples(note.start_time - start) + p * ph_len_of(note)

(* the slots of a note that is not skipped: memcpy for p = 0 and          *)
(* apply_crossfade for p > 0 both write dest[current_p + 0 .. ph_len - 1];*)
(* a phoneme that is not in the library is passed over                    *)
track_note_writes(a, note, start) ==
    {[note |-> a, slot |-> p, from |-> current_p_of(note, start, p),
      to |-> current_p_of(note, start, p) + ph_len_of(note) - 1] :
        p \in {q \in 0..(note.phoneme_count - 1) :
                 InLibrary(note.phonemes[q + 1]) /\ ph_len_of(note) >= 1}}

(* memcpy(&buffer[current_p], tmp, sizeof(float) * ph_len) with a         *)
(* negative ph_len: the size converts to a huge unsigned value, tmp is    *)
(* what malloc gave for that size; the copy is undefined and ends the     *)
(* process, before or after it has written past the buffer                *)
memcpy_overrun(a, note, start, out_len) ==
    IF ph_len_of(note) < 0 /\ InLibrary(note.phonemes[1])
    THEN {{}, {[note |-> a, slot |-> 0,
                from |-> current_p_of(note, start, 0), to |-> out_len]}}
    ELSE {}

vse_synthesize_track_begin(ns, note_cnt, start, end) ==
    /\ request' = [notes |-> ns, note_count |-> note_cnt,
                   start |-> start, end |-> end]
    /\ out_count' = TrackSamples(end - start)
    /\ buffer_writes' = {}
    /\ pcm_reads' = {}
    /\ req_i' = 0
    /\ req_pc' = "notes"
    /\ UNCHANGED <<g_voice_db, wav_files, last_load, cache_cleared,
                   shaping_vars, render_vars>>

(* request_synthesis_full of api_interface.c: the track from 0 to the     *)
(* latest note end plus one second                                        *)
track_request_synthesis_full(req) ==
    vse_synthesize_track_begin(req.notes, req.note_count, 0,
                               max_time_of(req.notes) + TicksPerSecond)

vse_synthesize_track_note ==
    /\ req_pc = "notes"
    /\ req_i < request.note_count
    /\ LET note == request.notes[req_i + 1]
       IN IF track_note_skipped(note, request.start, out_count)
          THEN req_pc' = "notes" /\ UNCHANGED buffer_writes
          ELSE \/ /\ memcpy_overrun(req_i, note, request.start,
                                    out_count) = {}
                  /\ buffer_writes' = buffer_writes \cup
                         track_note_writes(req_i, note, request.start)
                  /\ req_pc' = "notes"
               \/ /\ \E stray \in memcpy_overrun(req_i, note,
                                    request.start, out_count) :
                         buffer_writes' = buffer_writes \cup stray
                  /\ req_pc' = "aborted"
    /\ req_i' = req_i + 1
    /\ UNCHANGED <<g_voice_db, wav_files, last_load, cache_cleared,
                   shaping_vars, render_vars, request, out_count, pcm_reads>>

vse_synthesize_track_return ==
    /\ req_pc = "notes"
    /\ req_i = request.note_count
    /\ req_pc' = "returned"
    /\ UNCHANGED <<g_voice_db, wav_files, last_load, cache_cleared,
                   shaping_vars, render_vars, request, out_count,
                   buffer_writes, pcm_reads, req_i>>

(* free_synthesized_audio releases the buffer *)
free_synthesized_audio ==
    /\ req_pc = "returned"
    /\ request' = NoRequest
    /\ out_count' = 0
    /\ buffer_writes' = {}
    /\ pcm_reads' = {}
    /\ req_i' = 0
    /\ req_pc' = "idle"
    /\ UNCHANGED <<g_voice_db, wav_files, last_load, cache_cleared,
                   shaping_vars, render_vars>>

TrackDurations == {-1, 0, 1, 2}
TrackPhonemeLists ==
    {<<>>, <<"a">>, <<"b">>, <<"a", "a">>, <<"a", "b">>, <<"b", "a">>}
TrackNotes ==
    {CNoteEvent(st, du, 60, ph) : st \in StartTimes, du \in TrackDurations,
                                  ph \in TrackPhonemeLists}
TrackNoteLists ==
    {<<>>} \cup {<<a>> : a \in TrackNotes}
        \cup {<<a, b>> : a \in TrackNotes, b \in TrackNotes}
TrackRequests ==
    {[notes |-> ns, note_count |-> Len(ns)] : ns \in TrackNoteLists}
TrackWindows == {[start |-> 0, end |-> 2], [start |-> 1, end |-> 4]}

call_track_request_synthesis_full ==
    /\ req_pc = "idle"
    /\ \E req \in TrackRequests : track_request_synthesis_full(req)

call_vse_synthesize_track ==
    /\ req_pc = "idle"
    /\ \E req \in TrackRequests, w \in TrackWindows :
          vse_synthesize_track_begin(req.notes, req.note_count,
                                     w.start, w.end)

NextTrack ==
    \/ call_track_request_synthesis_full
    \/ call_vse_synthesize_track
    \/ vse_synthesize_track_note
    \/ vse_synthesize_track_return
    \/ free_synthesized_audio

SpecTrack == InitFiles /\ [][NextTrack]_vars

(* ======================= properties of the render ====================== *)
Resolvable(n) == n.wav_path # NULL /\ n.wav_path \in DOMAIN g_voice_db

Started == pc \in {"loop", "returned", "aborted"} /\ notes # <<>>

FramesOf(call) == notes[call.note + 1].pitch_length

(* twice the exact number of samples per frame step: 2 * 5 ms * 44100 Hz *)
TwiceStep == (2 * frame_period * fs) \div MsPerSecond

(* the sum of the segment counts of the first k notes, by the count used  *)
(* when a segment is written                                              *)
RECURSIVE SegmentSum(_, _)
SegmentSum(ns, k) ==
    IF k = 0 THEN 0
    ELSE SegmentSum(ns, k - 1) + note_samples(ns[k].pitch_length)

(* C1: every segment handed to Synthesis occupies a range                 *)
(* [offset, offset + note_samples) inside [0, total_samples) of the       *)
(* output buffer.                                                         *)
C1_SegmentsInsideBuffer ==
    \A j \in 1..Len(synth_calls) :
        synth_calls[j].y_length > 0 =>
            /\ 0 <= synth_calls[j].offset
            /\ synth_calls[j].offset + synth_calls[j].y_length
                   <= total_samples_required

(* C2: a note whose source is not in the sample store writes nothing and  *)
(* advances the running offset by its own segment sample count.           *)
C2_SkipAdvancesOffset ==
    [][(pc = "loop" /\ i < Len(notes) /\ i' = i + 1
            /\ notes[i + 1].wav_path \notin DOMAIN g_voice_db)
         => (/\ synth_calls' = synth_calls
             /\ current_offset' = current_offset
                    + SamplesOf(notes[i + 1].pitch_length))]_vars

(* C3: a render of exactly one note whose source is absent completes and  *)
(* hands the WAV writer an all-zero buffer of that note's segment sample  *)
(* count.                                                                 *)
C3_AbsentNoteRendersSilence ==
    (Started /\ Len(notes) = 1 /\ ~Resolvable(notes[1])) =>
        /\ pc # "aborted"
        /\ pc = "returned" =>
              wav_calls = <<[sample_count |->
                                 note_samples(notes[1].pitch_length),
                             written |-> <<>>]>>

(* C4: a note with frame count 0 does not abort the render: the buffer    *)
(* size is non-negative and the running offset never becomes negative.    *)
C4_ZeroFrameNoteIsHarmless ==
    (Started /\ \E k \in 1..Len(notes) : notes[k].pitch_length = 0) =>
        /\ pc # "aborted"
        /\ total_samples_required >= 0
        /\ current_offset >= 0

(* C5 as stated: for every frame count >= 1 the segment sample count is   *)
(* round((frame_count - 1) * 441 / 2) + 1.                                *)
C5_RoundedCount ==
    \A j \in 1..Len(synth_calls) :
        FramesOf(synth_calls[j]) >= 1 =>
            synth_calls[j].y_length =
                ((FramesOf(synth_calls[j]) - 1) * TwiceStep + 1) \div 2 + 1

(* C5 as amended: for every frame count >= 1 the segment sample count is  *)
(* the double product truncated toward zero, plus 1: it is                *)
(* floor((frame_count - 1) * 441 / 2) + 1 when the product has a          *)
(* fraction, and that value or one less when the exact product is an      *)
(* integer (one less for frame_count = 71, where the double product       *)
(* falls just below 15435).                                               *)
C5_TruncatedCount ==
    \A j \in 1..Len(synth_calls) :
        LET n == FramesOf(synth_calls[j])
            y == synth_calls[j].y_length
            twice == (n - 1) * TwiceStep
        IN n >= 1 =>
             /\ twice % 2 = 1 => y = (twice - 1) \div 2 + 1
             /\ twice % 2 = 0 => y \in {twice \div 2, twice \div 2 + 1}
             /\ n = 71 => y = twice \div 2
             /\ n \in {1, 3, 5} => y = twice \div 2 + 1

C5_Witness ==
    \E j \in 1..Len(synth_calls) :
        FramesOf(synth_calls[j]) = 71 /\ synth_calls[j].y_length = 15435

(* C6: a render of exactly one note with 100 pitch frames whose source is *)
(* in the sample store produces an output buffer of exactly 21830         *)
(* samples.                                                               *)
C6_ScenarioLength ==
    (Started /\ Len(notes) = 1 /\ notes[1].pitch_length = length
            /\ Resolvable(notes[1])) =>
        /\ pc # "aborted"
        /\ total_samples_required = 21830
        /\ pc = "returned" =>
              /\ Len(wav_calls) = 1
              /\ wav_calls[1].sample_count = 21830

C6_Witness ==
    /\ pc = "returned"
    /\ Len(notes) = 1
    /\ notes[1].pitch_length = length
    /\ Resolvable(notes[1])
    /\ Len(wav_calls) = 1
    /\ wav_calls[1].sample_count = 21830
    /\ BufferAt(wav_calls[1].written, 0) # 0
    /\ BufferAt(wav_calls[1].written, 21829) # 0

(* C7: sizing, skipping and writing use the same sample count, so         *)
(* total_samples is the sum of the per-note segment counts and, when all  *)
(* frame counts are >= 1, the running offset is the sum over the notes    *)
(* processed so far and equals total_samples after the last note.         *)
C7_SameFormula ==
    Started =>
        /\ total_samples_required = SegmentSum(notes, Len(notes))
        /\ (\A k \in 1..Len(notes) : notes[k].pitch_length >= 1) =>
              /\ current_offset = SegmentSum(notes, i)
              /\ i = Len(notes) => current_offset = total_samples_required

C7_Witness ==
    /\ pc = "loop"
    /\ i = Len(notes)
    /\ Len(notes) = 3
    /\ \A k \in 1..3 : notes[k].pitch_length >= 1
    /\ ~Resolvable(notes[1])
    /\ Resolvable(notes[2])
    /\ ~Resolvable(notes[3])
    /\ Len(synth_calls) = 1
    /\ current_offset = total_samples_required
    /\ total_samples_required > 3

(* C8: note i's segment occupies exactly [sum of the segment counts of    *)
(* the notes before it, that sum + its own count), so the write ranges    *)
(* of two distinct notes are disjoint.                                    *)
C8_CumulativeLayout ==
    /\ \A j \in 1..Len(synth_calls) :
          synth_calls[j].offset = SegmentSum(notes, synth_calls[j].note)
    /\ \A j, k \in 1..Len(synth_calls) :
          j < k =>
             \/ synth_calls[j].offset + synth_calls[j].y_length
                    <= synth_calls[k].offset
             \/ synth_calls[k].offset + synth_calls[k].y_length
                    <= synth_calls[j].offset

(* C9: with a non-empty note list the WAV writer is invoked exactly once, *)
(* after every note has been processed, with the whole composited buffer. *)
C9_SingleFinalWrite ==
    /\ wav_calls # <<>> => i = Len(notes)
    /\ (pc = "returned" /\ notes # <<>>) =>
          /\ Len(wav_calls) = 1
          /\ wav_calls[1].written = synth_calls

(* C10: two notes of one render that reference the same source with the  *)
(* same frame count cause one spectral analysis (CheapTrick + D4C) of     *)
(* that source.                                                           *)
C10_AnalysisOncePerSource ==
    (pc = "returned" /\ Len(notes) = 2 /\ notes[1] = notes[2]
            /\ Resolvable(notes[1])) =>
        Len(analysis_calls) = 1

(* ================= properties of successive renders ==================== *)
SecondRenderEnded ==
    \/ Len(wav_calls) = 2
    \/ pc = "aborted" /\ Len(wav_calls) = 1

(* C11: two renders of one note that references the same present source:  *)
(* with a cache clear between them the analyzer runs once in each render  *)
(* (twice in total), without the clear it runs once overall.              *)
C11_ClearForcesReanalysis ==
    (Len(wav_calls) = 2 /\ Len(notes) = 1 /\ Resolvable(notes[1])) =>
        Len(analysis_calls) = (IF cache_cleared THEN 2 ELSE 1)

C13_RepeatedRenderIdentical ==
    SecondRenderEnded =>
        /\ Len(wav_calls) = 2
        /\ wav_calls[2] = wav_calls[1]

(* ==================== properties of the shaping ======================= *)
Shaped == frame_out # NoFrameOut

(* C14: when gender_curve[j] = 0.5 the formant-shift step leaves every    *)
(* bin of the frame's envelope row equal to its value before the step.    *)
C14_NeutralGenderKeepsRow ==
    (Shaped /\ frame_in.g_val = Half) => frame_out.shifted = frame_in.spec_orig

C14_Witness ==
    /\ Shaped
    /\ frame_in.g_val = Half
    /\ frame_in.t_val # Half
    /\ frame_in.spec_orig[1] # frame_in.spec_orig[2]
    /\ frame_out.shifted = frame_in.spec_orig
    /\ frame_out.spec_data # frame_in.spec_orig

(* C15: for a fixed input aperiodicity in [0,1] the shaped aperiodicity   *)
(* of every bin never exceeds 1.0 and does not decrease when the breath   *)
(* value is raised.                                                       *)
C15_BreathMonotone ==
    Shaped =>
        \A kk \in 1..spec_bins :
            /\ ~FLess(One, frame_out.ap_data[kk])
            /\ \A b \in BreathValues :
                  FLess(frame_in.b_val, b) =>
                     ~FLess(ShapedApTable[frame_in.ap_orig][b][kk],
                            frame_out.ap_data[kk])

C15_Witness ==
    /\ Shaped
    /\ frame_in.b_val = FDivInt(FOfInt(3), 10)
    /\ \E kk \in 1..spec_bins :
          /\ FLess(frame_in.ap_orig[kk], frame_out.ap_data[kk])
          /\ FLess(frame_out.ap_data[kk], One)
          /\ FLess(frame_out.ap_data[kk],
                   ShapedApTable[frame_in.ap_orig][One][kk])
    /\ \E kk \in 1..spec_bins :
          /\ FLess(frame_in.ap_orig[kk], One)
          /\ frame_out.ap_data[kk] = One

(* C16: while a note is shaped and synthesized every index used to read   *)
(* pitch_curve, gender_curve, tension_curve or breath_curve is in         *)
(* 0 .. frame_count - 1.                                                  *)
C16_CurveIndexInRange ==
    \A r \in curve_reads :
        0 <= r.index /\ r.index < shaped_note.pitch_length

C16_Witness ==
    /\ shape_pc = "synthesized"
    /\ shaped_note.pitch_length = 2
    /\ curve_reads =
          {[curve |-> c, index |-> jj] :
             c \in ShapedCurves \cup {"pitch_curve"}, jj \in 0..1}

(* C17: a note with a gender, tension or breath curve that is missing or  *)
(* shorter than frame_count is skipped: it is not synthesized and the     *)
(* curve is never read outside its own elements.                          *)
C17_ShortCurveRejected ==
    \A c \in ShapedCurves :
        (shaped_note[c].null \/ shaped_note[c].len < shaped_note.pitch_length)
            => /\ shape_pc # "synthesized"
               /\ \A r \in curve_reads :
                     r.curve = c => InsideCurve(shaped_note[c], r.index)

(* C18 as stated: when no note of a render is rendered (every note is     *)
(* skipped), the render aborts without output: the WAV writer is not      *)
(* called.                                                                *)
C18_NoOutputWhenAllSkipped ==
    (pc = "returned" /\ notes # <<>> /\ synth_calls = <<>>) =>
        wav_calls = <<>>

(* C18 as the code has it: a render in which every note is skipped runs   *)
(* to the end and calls the WAV writer exactly once, with an all-zero     *)
(* buffer of the summed segment length; the writer is not called only     *)
(* when the render stops before its note loop on a negative buffer size.  *)
C18_SilentOutputWhenAllSkipped ==
    (Started /\ synth_calls = <<>>) =>
        /\ pc = "returned" =>
              wav_calls = <<[sample_count |-> total_samples_required,
                             written |-> <<>>]>>
        /\ pc = "aborted" =>
              /\ total_samples_required < 0
              /\ i = 0
              /\ wav_calls = <<>>

C18_Witness ==
    /\ pc = "returned"
    /\ Len(notes) = 2
    /\ \A k \in 1..2 : ~Resolvable(notes[k]) /\ notes[k].pitch_length >= 1
    /\ synth_calls = <<>>
    /\ Len(wav_calls) = 1
    /\ wav_calls[1].sample_count = total_samples_required
    /\ total_samples_required > 0

(* the notes of the render for which no segment was written *)
NotesWithoutSegment ==
    {k \in 1..Len(notes) :
        \A c \in 1..Len(synth_calls) : synth_calls[c].note # k - 1}

(* C19: every note a render skips is recorded and the result exposes the  *)
(* skipped notes to the caller; the number of recorded skips equals the   *)
(* number of notes for which no segment was written.                      *)
C19_SkipsReported ==
    (pc = "returned" /\ notes # <<>>) =>
        Len(skipped_notes_reported) = Cardinality(NotesWithoutSegment)

(* the waveform is the first sample_count values of raw_data, each        *)
(* divided by 32768, and lies in [-1, 1)                                  *)
IsNormalized(waveform, raw_data, sample_count) ==
    /\ Len(waveform) = sample_count
    /\ \A s \in 1..sample_count :
          /\ waveform[s].den > 0
          /\ waveform[s].num * 32768 = raw_data[s] * waveform[s].den
          /\ -waveform[s].den <= waveform[s].num
          /\ waveform[s].num < waveform[s].den

(* C20: after load_embedded_resource(key, raw_data, n) with non-null      *)
(* arguments and n > 0 the store maps key to exactly n samples, sample s  *)
(* being raw_data[s] / 32768 in [-1, 1); a previous waveform under the    *)
(* key is replaced and every other key keeps its waveform.                *)
C20_LoadPostState ==
    [][\A key \in Keys, raw \in RawBlobs :
          (NoCall /\ load_embedded_resource(key, raw, Len(raw))) =>
             /\ DOMAIN g_voice_db' = DOMAIN g_voice_db \cup {key}
             /\ IsNormalized(g_voice_db'[key].waveform, raw, Len(raw))
             /\ \A other \in DOMAIN g_voice_db \ {key} :
                   g_voice_db'[other] = g_voice_db[other]]_vars

C20_Witness ==
    /\ NoCall
    /\ DOMAIN g_voice_db = Keys
    /\ IsNormalized(g_voice_db["a"].waveform, <<16384, 32767>>, 2)
    /\ IsNormalized(g_voice_db["b"].waveform, <<-32768>>, 1)

(* C21: a load that fails (file missing or empty in preload_voice_sample; *)
(* null phoneme, null data or sample_count <= 0 in                        *)
(* load_embedded_resource) leaves the store as it was: no key is added    *)
(* and every entry keeps its waveform.                                    *)
C21_FailedLoadKeepsStore ==
    last_load.failed => g_voice_db = last_load.before

C21_Witness ==
    /\ last_load.failed
    /\ last_load.op = "preload_voice_sample"
    /\ DOMAIN g_voice_db = {"a"}
    /\ DOMAIN last_load.before = {"a"}

(* the output buffer of the request exists *)
Allocated == req_pc \in {"notes", "returned", "aborted"}

(* C22: the output buffer of request_synthesis_full covers every note's   *)
(* write region: for every note of the request, in any order, the buffer  *)
(* length is at least (start_time + duration) * sample_rate.              *)
C22_BufferCoversEveryNote ==
    req_pc = "notes" =>
        \A a \in 1..request.note_count :
            out_count * TicksPerSecond
                >= NoteEnd(request.notes[a]) * request.sample_rate

(* C29: every index written in output_buffer is in 0 .. total_samples - 1 *)
(* and every index read from the source PCM data is in                    *)
(* 0 .. totalPCMFrameCount * channels - 1.                                *)
C29_ResampleIndicesInRange ==
    Allocated =>
        /\ \A w \in buffer_writes : 0 <= w.from /\ w.to <= out_count - 1
        /\ \A r \in pcm_reads : 0 <= r.index /\ r.index <= r.size - 1

(* C30: in vse_synthesize_track a note that starts before the track, ends *)
(* past the buffer or has no phonemes is skipped and leaves the buffer    *)
(* unchanged; for every other note all writes are at indices in           *)
(* 0 .. out_len - 1, and a phoneme missing from the library leaves its    *)
(* slot unchanged.                                                        *)
C30_TrackWritesInRange ==
    \A w \in buffer_writes :
        /\ ~track_note_skipped(request.notes[w.note + 1], request.start,
                               out_count)
        /\ InLibrary(request.notes[w.note + 1].phonemes[w.slot + 1])
        /\ 0 <= w.from
        /\ w.to <= out_count - 1

(* the curve values of the frame are values of the host, in [0,1] *)
CurvesInUnitRange ==
    /\ frame_in.g_val \in GenderValues
    /\ frame_in.t_val \in TensionValues
    /\ frame_in.b_val \in BreathValues

(* the source position of bin k lies beyond the last bin *)
BeyondLastBin(k) ==
    FLess(FOfInt(spec_bins - 1),
          target_k(k, formant_shift(frame_in.g_val)))

(* C23: in the formant-shift step, for a gender value in [0,1], the       *)
(* pre-shift row is read only at indices 0 .. spec_bins - 1, and a bin    *)
(* whose source position k * (1 + shift) exceeds spec_bins - 1 keeps its  *)
(* pre-shift value.                                                       *)
C23_ShiftReadsInRange ==
    (Shaped /\ frame_in.g_val \in GenderValues) =>
        /\ \A r \in frame_out.reads \cup frame_out.core_reads :
              0 <= r /\ r <= spec_bins - 1
        /\ \A k \in 0..(spec_bins - 1) :
              BeyondLastBin(k) =>
                 /\ frame_out.shifted[k + 1] = frame_in.spec_orig[k + 1]
                 /\ frame_out.core_shifted[k + 1] = frame_in.spec_orig[k + 1]

C23_Witness ==
    /\ Shaped
    /\ frame_in.g_val = One
    /\ BeyondLastBin(spec_bins - 1)
    /\ frame_in.spec_orig[spec_bins - 1] # frame_in.spec_orig[spec_bins]
    /\ frame_out.shifted # frame_in.spec_orig
    /\ spec_bins - 1 \in frame_out.reads
    /\ spec_bins - 1 \in frame_out.core_reads

(* C24: every formant-shifted value is interpolated from the values the   *)
(* row had before the shaping of the frame began, never from a bin that   *)
(* was already rewritten or tension-scaled in this pass; the tension      *)
(* scaling is applied to the shifted value.                               *)
C24_ShiftReadsTheCopy ==
    Shaped =>
        \A kk \in 1..spec_bins :
            frame_out.after_loop[kk] =
                tension_step(shifted_bin(frame_in.spec_orig, kk - 1,
                                         formant_shift(frame_in.g_val)),
                             frame_in.t_val, freq_weight(kk - 1))

C24_Witness ==
    /\ Shaped
    /\ frame_in.g_val = Zero
    /\ frame_in.t_val = One
    /\ frame_in.spec_orig[1] # frame_in.spec_orig[2]
    /\ frame_out.after_loop[2] # frame_in.spec_orig[2]
    /\ frame_out.after_loop[3] # frame_in.spec_orig[3]
    /\ 1 \in frame_out.reads

(* C25: for gender, tension and breath values in [0,1] and an input       *)
(* aperiodicity in [0,1], shaping leaves bin 0 of the envelope and of the *)
(* aperiodicity of the frame unchanged.                                   *)
C25_BinZeroUnchanged ==
    (Shaped /\ CurvesInUnitRange) =>
        /\ frame_out.spec_data[1] = frame_in.spec_orig[1]
        /\ frame_out.ap_data[1] = frame_in.ap_orig[1]
        /\ frame_out.core_spec_data[1] = frame_in.spec_orig[1]
        /\ frame_out.core_ap_data[1] = frame_in.ap_orig[1]

C25_Witness ==
    /\ Shaped
    /\ frame_in.g_val = One
    /\ frame_in.t_val = One
    /\ frame_in.b_val = One
    /\ FLess(frame_in.ap_orig[1], One)
    /\ frame_out.spec_data[1] = frame_in.spec_orig[1]
    /\ frame_out.spec_data[2] # frame_in.spec_orig[2]
    /\ frame_out.ap_data[2] # frame_in.ap_orig[2]
    /\ frame_out.core_spec_data[2] # frame_in.spec_orig[2]

(* C26: the weight of the tension and breath steps at bin k is exactly    *)
(* k / spec_bins: the envelope is multiplied by                           *)
(* 1 + (tension - 0.5) * (k / spec_bins), the aperiodicity becomes        *)
(* min(1.0, aperiodicity + breath * (k / spec_bins)), and tension 0.5     *)
(* leaves the envelope unchanged.                                         *)
C26_WeightIsBinOverBins ==
    Shaped =>
        /\ \A kk \in 1..spec_bins :
              /\ frame_out.spec_data[kk] =
                    tension_step(frame_out.shifted[kk], frame_in.t_val,
                                 FDivInt(FOfInt(kk - 1), spec_bins))
              /\ frame_out.ap_data[kk] =
                    FMin(One, FAdd(frame_in.ap_orig[kk],
                                   FMul(frame_in.b_val,
                                        FDivInt(FOfInt(kk - 1), spec_bins))))
        /\ frame_in.t_val = Half => frame_out.spec_data = frame_out.shifted

(* C28: when every input envelope value is strictly positive and the      *)
(* gender and tension values are in [0,1], every envelope value after     *)
(* shaping is strictly positive.                                          *)
C28_EnvelopeStaysPositive ==
    (/\ Shaped
     /\ frame_in.g_val \in GenderValues
     /\ frame_in.t_val \in TensionValues
     /\ \A kk \in 1..spec_bins : FLess(Zero, frame_in.spec_orig[kk])) =>
        \A kk \in 1..spec_bins :
            /\ FLess(Zero, frame_out.spec_data[kk])
            /\ FLess(Zero, frame_out.core_spec_data[kk])

C28_Witness ==
    /\ Shaped
    /\ frame_in.g_val = Zero
    /\ frame_in.t_val = Zero
    /\ FLess(Zero, frame_out.spec_data[spec_bins])
    /\ frame_out.spec_data[spec_bins] =
          FMul(frame_out.shifted[spec_bins], Half)
    /\ FLess(frame_out.shifted[spec_bins], frame_in.spec_orig[spec_bins])

(* C27: for every frame_count >= 1 and every non-empty source waveform    *)
(* the time axis is well defined, starts at 0, is non-decreasing, and     *)
(* every element lies in [0, source_duration] with the last frame at      *)
(* source_duration.                                                       *)
C27_TimeAxisWellDefined ==
    \A jj \in 1..Len(time_axis) :
        /\ time_axis[jj] # NotANumber
        /\ time_axis[1] = Zero
        /\ ~FLess(time_axis[jj], Zero)
        /\ ~FLess(source_duration(axis_of.size), time_axis[jj])
        /\ jj > 1 => ~FLess(time_axis[jj], time_axis[jj - 1])
        /\ jj = axis_of.f0_length =>
              time_axis[jj] = source_duration(axis_of.size)

====
